---- MODULE Spec2Model ----
(***************************************************************************)
(* The tick engine of the behaviour-tree runtime: the flow logic of        *)
(* runtime/forester/flow.rs and the tree context of runtime/context.rs,    *)
(* driven by the Forester loop.                                            *)
(*                                                                         *)
(* RtArgs is modelled as a record with one optional entry per flow-level   *)
(* name (<<>> = absent, <<v>> = present); `children` is the array itself,  *)
(* <<>> when absent.  Child indexes are 0-based as in the code, so the     *)
(* i-th child of a node is kids[i + 1].                                    *)
(***************************************************************************)
EXTENDS Integers, Sequences, FiniteSets, TLC

\* ------------------------------------------------------------------ bounds
\* how many times one leaf may answer Running before it has to finish
MaxRunning == 1

\* ------------------------------------------------------------------- trees
Root == 1

FlowTypes == {"Sequence", "MSequence", "RSequence", "Fallback", "RFallback", "Parallel"}

\* root -> F { a b }
ShapePair(f) ==
  [tpe  |-> <<"Root", f, "Leaf", "Leaf">>,
   kids |-> << <<2>>, <<3, 4>>, <<>>, <<>> >>]

\* root -> F { a b c }
ShapeFlat(f) ==
  [tpe  |-> <<"Root", f, "Leaf", "Leaf", "Leaf">>,
   kids |-> << <<2>>, <<3, 4, 5>>, <<>>, <<>>, <<>> >>]

\* root -> G { F { a b } c }
ShapeLeft(g, f) ==
  [tpe  |-> <<"Root", g, f, "Leaf", "Leaf", "Leaf">>,
   kids |-> << <<2>>, <<3, 4>>, <<5, 6>>, <<>>, <<>>, <<>> >>]

\* root -> G { c F { a b } }
ShapeRight(g, f) ==
  [tpe  |-> <<"Root", g, "Leaf", f, "Leaf", "Leaf">>,
   kids |-> << <<2>>, <<3, 4>>, <<>>, <<5, 6>>, <<>>, <<>> >>]

Trees ==
  {ShapePair(f) : f \in FlowTypes}
    \cup {ShapeFlat(f) : f \in FlowTypes}
    \cup {ShapeLeft(g, f) : g \in FlowTypes, f \in FlowTypes}
    \cup {ShapeRight(g, f) : g \in FlowTypes, f \in FlowTypes}

\* the failure string a leaf reports, one per node id
LeafReason == <<"r1", "r2", "r3", "r4", "r5", "r6">>

VARIABLES
  rtree,       \* the compiled tree (immutable during a run)
  state,       \* TreeContext.state : RNodeId -> RNodeState (partial)
  ts_map,      \* TreeContext.ts_map : RNodeId -> Timestamp (partial)
  stack,       \* TreeContext.stack
  curr_ts,     \* TreeContext.curr_ts
  tick_limit,  \* TreeContext.tick_limit
  pc,          \* "loop" while the driver loop runs, then "done" or "stopped"
  budget,      \* per leaf: how often it may still return Running
  visits,      \* history: how often each node was ticked in the current tick
  order,       \* history: the nodes ticked in the current tick, in order
  seen,        \* history: the stored state of a flow node when it was last entered
  indent,      \* Tracer: the indent counter
  trace,       \* Tracer: the log of events, from the end of the previous tick on
  probe        \* the last direct call of a function of the context: its input and result

vars == <<rtree, state, ts_map, stack, curr_ts, tick_limit, pc, budget, visits, order, seen,
          indent, trace, probe>>

Nodes == DOMAIN rtree.tpe
Leaves == {n \in Nodes : rtree.tpe[n] = "Leaf"}
Flows == Nodes \ Leaves
NKids(n) == Len(rtree.kids[n])
Kid(n, i) == rtree.kids[n][i + 1]

\* ------------------------------------------------------------------ RtArgs
EmptyArgs ==
  [cursor |-> <<>>, len |-> <<>>, prev_cursor |-> <<>>, reason |-> <<>>, children |-> <<>>]

\* RtArgs::with for a scalar entry
With(args, name, v) == [args EXCEPT ![name] = <<v>>]
\* RtArgs::with(CHILDREN, array)
WithChildren(args, arr) == [args EXCEPT !.children = arr]
\* RtArgs::remove
Remove(args, name) == [args EXCEPT ![name] = <<>>]

\* ------------------------------------------------------------- RNodeState
Ready(a) == [tag |-> "Ready", args |-> a]
Running(a) == [tag |-> "Running", args |-> a]
Success(a) == [tag |-> "Success", args |-> a]
Failure(a) == [tag |-> "Failure", args |-> a]

Fin == {"Success", "Failure"}

\* TickResult values
TSuccess == [res |-> "Success", reason |-> ""]
TFailure(v) == [res |-> "Failure", reason |-> v]
TRunning == [res |-> "Running", reason |-> ""]

\* RNodeState::from that does not store the reason of a Failure
StateFrom_NoReason(tick_args, r) ==
  IF r.res = "Success" THEN Success(tick_args)
  ELSE IF r.res = "Failure" THEN Failure(tick_args)
  ELSE Running(tick_args)

\* RNodeState::from(tick_args, res)
StateFrom(tick_args, r) ==
  IF r.res = "Success" THEN Success(tick_args)
  ELSE IF r.res = "Failure" THEN Failure(With(tick_args, "reason", r.reason))
  ELSE Running(tick_args)

\* TryFrom<RNodeState> for TickResultFin (only called on finished states)
ToFin(s) ==
  IF s.tag = "Success" THEN TSuccess
  ELSE TFailure(IF s.args.reason = <<>> THEN "" ELSE s.args.reason[1])

\* -------------------------------------------------------------- flow logic
run_with(tick_args, cursor, len) ==
  With(With(tick_args, "cursor", cursor), "len", len)

read_len_or_zero(args) == IF args.len = <<>> THEN 0 ELSE args.len[1]

Max(a, b) == IF a >= b THEN a ELSE b

\* read_cursor looking at the cursor only
read_cursor_CursorOnly(tick_args) ==
  IF tick_args.cursor # <<>> THEN tick_args.cursor[1] ELSE 0

\* read_cursor that prefers prev_cursor to cursor
read_cursor_PrevWins(tick_args) ==
  IF tick_args.prev_cursor # <<>> THEN tick_args.prev_cursor[1]
  ELSE IF tick_args.cursor # <<>> THEN tick_args.cursor[1]
  ELSE 0

read_cursor(tick_args) ==
  LET p_cursor == tick_args.cursor
      cursor == tick_args.prev_cursor
  IN IF cursor # <<>> /\ p_cursor # <<>> THEN Max(cursor[1], p_cursor[1])
     ELSE IF p_cursor # <<>> THEN p_cursor[1]
     ELSE IF cursor # <<>> THEN cursor[1]
     ELSE 0

read_children_state(args) == args.children

replace_child_state(args, idx, v) ==
  WithChildren(args, [read_children_state(args) EXCEPT ![idx + 1] = v])

RECURSIVE find_pos(_, _, _)
find_pos(children, low, high) ==
  IF low < high
  THEN IF children[low + 1] = 0 \/ children[low + 1] = 1
       THEN <<low>>
       ELSE find_pos(children, low + 1, high)
  ELSE <<>>

find_next_idx(children, current) == find_pos(children, current + 1, Len(children))

find_first_idx(children, current) == find_pos(children, 0, current)

Contains(children, v) == \E i \in 1..Len(children) : children[i] = v

\* run_with_par that does not seed the children array on the first visit
run_with_par_NoSeed(tick_args, len) ==
  LET prev_states == read_children_state(tick_args)
  IN IF prev_states = <<>>
     THEN run_with(tick_args, 0, len)
     ELSE run_with(tick_args, read_cursor(tick_args), len)

run_with_par(tick_args, len) ==
  LET prev_states == read_children_state(tick_args)
  IN IF prev_states = <<>>
     THEN run_with(WithChildren(tick_args, [i \in 1..len |-> 0]), 0, len)
     ELSE run_with(tick_args, read_cursor(tick_args), len)

Stay(s) == [kind |-> "Stay", st |-> s]
PopNode(s) == [kind |-> "PopNode", st |-> s]

\* finalizeRoot that ignores the child's result
finalizeRoot_AlwaysSuccess(tick_args, res) == Stay(Success(run_with(tick_args, 0, 1)))

finalizeRoot(tick_args, res) == Stay(StateFrom(run_with(tick_args, 0, 1), res))

\* finalizeSequence that keeps prev_cursor on a Failure
finalizeSequence_KeepPrev(tick_args, res) ==
  LET cursor == read_cursor(tick_args)
      len == read_len_or_zero(tick_args)
  IN IF res.res = "Failure"
     THEN Stay(Failure(run_with(With(tick_args, "reason", res.reason), cursor, len)))
     ELSE IF cursor = len - 1
          THEN Stay(Success(run_with(Remove(tick_args, "prev_cursor"), cursor, len)))
          ELSE Stay(Running(run_with(tick_args, cursor + 1, len)))

finalizeSequence(tick_args, res) ==
  LET cursor == read_cursor(tick_args)
      len == read_len_or_zero(tick_args)
  IN IF res.res = "Failure"
     THEN Stay(Failure(run_with(With(Remove(tick_args, "prev_cursor"), "reason", res.reason),
                                cursor, len)))
     ELSE IF cursor = len - 1
          THEN Stay(Success(run_with(Remove(tick_args, "prev_cursor"), cursor, len)))
          ELSE Stay(Running(run_with(tick_args, cursor + 1, len)))

\* finalizeMSequence that forgets the resume point on a Failure
finalizeMSequence_NoMemory(tick_args, res) ==
  LET cursor == read_cursor(tick_args)
      len == read_len_or_zero(tick_args)
  IN IF res.res = "Failure"
     THEN Stay(Failure(With(run_with(Remove(tick_args, "prev_cursor"), cursor, len),
                            "reason", res.reason)))
     ELSE IF cursor = len - 1
          THEN Stay(Success(run_with(Remove(tick_args, "prev_cursor"), cursor, len)))
          ELSE Stay(Running(run_with(tick_args, cursor + 1, len)))

\* finalizeMSequence that keeps prev_cursor on the final Success
finalizeMSequence_KeepOnSuccess(tick_args, res) ==
  LET cursor == read_cursor(tick_args)
      len == read_len_or_zero(tick_args)
  IN IF res.res = "Failure"
     THEN Stay(Failure(With(run_with(With(tick_args, "prev_cursor", cursor), cursor, len),
                            "reason", res.reason)))
     ELSE IF cursor = len - 1
          THEN Stay(Success(run_with(tick_args, cursor, len)))
          ELSE Stay(Running(run_with(tick_args, cursor + 1, len)))

finalizeMSequence(tick_args, res) ==
  LET cursor == read_cursor(tick_args)
      len == read_len_or_zero(tick_args)
  IN IF res.res = "Failure"
     THEN Stay(Failure(With(run_with(With(tick_args, "prev_cursor", cursor), cursor, len),
                            "reason", res.reason)))
     ELSE IF cursor = len - 1
          THEN Stay(Success(run_with(Remove(tick_args, "prev_cursor"), cursor, len)))
          ELSE Stay(Running(run_with(tick_args, cursor + 1, len)))

\* finalizeFallback that goes on to the next child after a Success
finalizeFallback_GoOn(tick_args, res) ==
  LET cursor == read_cursor(tick_args)
      len == read_len_or_zero(tick_args)
  IN IF cursor = len - 1
     THEN IF res.res = "Failure"
          THEN Stay(Failure(run_with(With(Remove(tick_args, "prev_cursor"), "reason", res.reason),
                                     cursor, len)))
          ELSE Stay(Success(run_with(Remove(tick_args, "prev_cursor"), cursor, len)))
     ELSE Stay(Running(run_with(tick_args, cursor + 1, len)))

\* finalizeFallback that leaves prev_cursor in the args of a finished node
finalizeFallback_KeepPrev(tick_args, res) ==
  LET cursor == read_cursor(tick_args)
      len == read_len_or_zero(tick_args)
  IN IF res.res = "Failure"
     THEN IF cursor = len - 1
          THEN Stay(Failure(run_with(With(tick_args, "reason", res.reason), cursor, len)))
          ELSE Stay(Running(run_with(tick_args, cursor + 1, len)))
     ELSE Stay(Success(run_with(tick_args, cursor, len)))

finalizeFallback(tick_args, res) ==
  LET cursor == read_cursor(tick_args)
      len == read_len_or_zero(tick_args)
  IN IF res.res = "Failure"
     THEN IF cursor = len - 1
          THEN Stay(Failure(run_with(With(Remove(tick_args, "prev_cursor"), "reason", res.reason),
                                     cursor, len)))
          ELSE Stay(Running(run_with(tick_args, cursor + 1, len)))
     ELSE Stay(Success(run_with(Remove(tick_args, "prev_cursor"), cursor, len)))

\* finalizeParallel without the reset of prev_cursor when it pops for the
\* children behind the cursor
finalizeParallel_NoReset(tick_args0, res) ==
  LET cursor == read_cursor(tick_args0)
      len == read_len_or_zero(tick_args0)
      st == IF res.res = "Failure" THEN 2 ELSE 3
      tick_args == replace_child_state(tick_args0, cursor, st)
      children == read_children_state(tick_args)
      idx == find_next_idx(children, cursor)
  IN IF idx # <<>>
     THEN Stay(Running(With(tick_args, "cursor", idx[1])))
     ELSE IF Contains(children, 1) \/ Contains(children, 0)
          THEN LET first == find_first_idx(children, cursor)
                   next_cursor == IF first = <<>> THEN 0 ELSE first[1]
               IN PopNode(Running(run_with(tick_args, next_cursor, len)))
          ELSE IF Contains(children, 2)
               THEN Stay(Failure(Remove(With(run_with(tick_args, cursor, len),
                                             "reason", "parallel failure"),
                                        "children")))
               ELSE Stay(Success(Remove(run_with(tick_args, cursor, len), "children")))

\* finalizeParallel staying on the node, instead of popping it, when the
\* pending children are behind the cursor
finalizeParallel_Stay(tick_args0, res) ==
  LET cursor == read_cursor(tick_args0)
      len == read_len_or_zero(tick_args0)
      st == IF res.res = "Failure" THEN 2 ELSE 3
      tick_args == replace_child_state(tick_args0, cursor, st)
      children == read_children_state(tick_args)
      idx == find_next_idx(children, cursor)
  IN IF idx # <<>>
     THEN Stay(Running(With(tick_args, "cursor", idx[1])))
     ELSE IF Contains(children, 1) \/ Contains(children, 0)
          THEN LET first == find_first_idx(children, cursor)
                   next_cursor == IF first = <<>> THEN 0 ELSE first[1]
               IN Stay(Running(With(run_with(tick_args, next_cursor, len), "prev_cursor", 0)))
          ELSE IF Contains(children, 2)
               THEN Stay(Failure(Remove(With(run_with(tick_args, cursor, len),
                                             "reason", "parallel failure"),
                                        "children")))
               ELSE Stay(Success(Remove(run_with(tick_args, cursor, len), "children")))

\* finalizeParallel that looks only for Ready children, not for Running ones,
\* before it finishes
finalizeParallel_IgnoreRunning(tick_args0, res) ==
  LET cursor == read_cursor(tick_args0)
      len == read_len_or_zero(tick_args0)
      st == IF res.res = "Failure" THEN 2 ELSE 3
      tick_args == replace_child_state(tick_args0, cursor, st)
      children == read_children_state(tick_args)
      idx == find_next_idx(children, cursor)
  IN IF idx # <<>>
     THEN Stay(Running(With(tick_args, "cursor", idx[1])))
     ELSE IF Contains(children, 0)
          THEN LET first == find_first_idx(children, cursor)
                   next_cursor == IF first = <<>> THEN 0 ELSE first[1]
               IN PopNode(Running(With(run_with(tick_args, next_cursor, len), "prev_cursor", 0)))
          ELSE IF Contains(children, 2)
               THEN Stay(Failure(Remove(With(run_with(tick_args, cursor, len),
                                             "reason", "parallel failure"),
                                        "children")))
               ELSE Stay(Success(Remove(run_with(tick_args, cursor, len), "children")))

finalizeParallel(tick_args0, res) ==
  LET cursor == read_cursor(tick_args0)
      len == read_len_or_zero(tick_args0)
      st == IF res.res = "Failure" THEN 2 ELSE 3
      tick_args == replace_child_state(tick_args0, cursor, st)
      children == read_children_state(tick_args)
      idx == find_next_idx(children, cursor)
  IN IF idx # <<>>
     THEN Stay(Running(With(tick_args, "cursor", idx[1])))
     ELSE IF Contains(children, 1) \/ Contains(children, 0)
          THEN LET first == find_first_idx(children, cursor)
                   next_cursor == IF first = <<>> THEN 0 ELSE first[1]
               IN PopNode(Running(With(run_with(tick_args, next_cursor, len), "prev_cursor", 0)))
          ELSE IF Contains(children, 2)
               THEN Stay(Failure(Remove(With(run_with(tick_args, cursor, len),
                                             "reason", "parallel failure"),
                                        "children")))
               ELSE Stay(Success(Remove(run_with(tick_args, cursor, len), "children")))

finalize(tpe, tick_args, res) ==
  IF tpe = "Root" THEN finalizeRoot(tick_args, res)
  ELSE IF tpe \in {"Sequence", "RSequence"} THEN finalizeSequence(tick_args, res)
  ELSE IF tpe = "MSequence" THEN finalizeMSequence(tick_args, res)
  ELSE IF tpe \in {"Fallback", "RFallback"} THEN finalizeFallback(tick_args, res)
  ELSE finalizeParallel(tick_args, res)

monitorParallel(tick_args) ==
  LET cursor == read_cursor(tick_args)
      new_args == replace_child_state(With(tick_args, "prev_cursor", cursor), cursor, 1)
      children == read_children_state(new_args)
      idx == find_next_idx(children, cursor)
  IN IF idx # <<>>
     THEN Stay(Running(With(new_args, "cursor", idx[1])))
     ELSE PopNode(Running(new_args))

\* monitor that stashes no prev_cursor for Sequence, MSequence and Fallback
monitor_NoStash(tpe, tick_args) ==
  IF tpe = "Parallel" THEN monitorParallel(tick_args)
  ELSE PopNode(Running(tick_args))

\* monitor that stashes the index after the Running child
monitor_StashNext(tpe, tick_args) ==
  IF tpe \in {"Sequence", "MSequence", "Fallback"}
  THEN PopNode(Running(With(tick_args, "prev_cursor", read_cursor(tick_args) + 1)))
  ELSE IF tpe = "Parallel" THEN monitorParallel(tick_args)
  ELSE PopNode(Running(tick_args))

monitor(tpe, tick_args) ==
  IF tpe \in {"Sequence", "MSequence", "Fallback"}
  THEN PopNode(Running(With(tick_args, "prev_cursor", read_cursor(tick_args))))
  ELSE IF tpe = "Parallel" THEN monitorParallel(tick_args)
  ELSE PopNode(Running(tick_args))

\* ------------------------------------------------------------ tree context
is_curr_ts(tm, ts, id) == id \in DOMAIN tm /\ tm[id] = ts

state_last_set(st, id) == IF id \in DOMAIN st THEN st[id] ELSE Ready(EmptyArgs)

\* state_in_ts that drops the args along with the status
state_in_ts_of_Wipe(st, tm, ts, id) ==
  LET actual_state == state_last_set(st, id)
  IN IF is_curr_ts(tm, ts, id) THEN actual_state ELSE Ready(EmptyArgs)

state_in_ts_of(st, tm, ts, id) ==
  LET actual_state == state_last_set(st, id)
  IN IF is_curr_ts(tm, ts, id) THEN actual_state ELSE Ready(actual_state.args)

state_in_ts(id) == state_in_ts_of(state, ts_map, curr_ts, id)

\* new_state: the two maps after recording s for id at tick ts
new_state_st(st, id, s) == [n \in DOMAIN st \cup {id} |-> IF n = id THEN s ELSE st[n]]
\* new_state that stamps the tick only on the first write of a node
new_state_ts_Stale(tm, ts, id) ==
  [n \in DOMAIN tm \cup {id} |-> IF n \in DOMAIN tm THEN tm[n] ELSE ts]

new_state_ts(tm, ts, id) == [n \in DOMAIN tm \cup {id} |-> IF n = id THEN ts ELSE tm[n]]

\* push that puts the node on the stack twice
Push_Twice(stk, id) == Append(Append(stk, id), id)

Push(stk, id) == Append(stk, id)
Pop(stk) == SubSeq(stk, 1, Len(stk) - 1)
Peek == stack[Len(stack)]

\* RtResult: Ok(v) or the unexpected-state error (RuntimeError::uex)
Ok(v) == [ok |-> TRUE, val |-> v]
Uex == [ok |-> FALSE, val |-> "uex"]

\* what pop returns: the node taken from the stack, if any
pop_result(stk) == Ok(IF stk = <<>> THEN <<>> ELSE <<stk[Len(stk)]>>)

\* to_tick_result that takes Ready for Running
to_tick_result_ReadyRuns(s) ==
  IF s.tag = "Success" THEN Ok(TSuccess)
  ELSE IF s.tag = "Failure"
       THEN Ok(TFailure(IF s.args.reason = <<>> THEN "" ELSE s.args.reason[1]))
       ELSE Ok(TRunning)

to_tick_result(s) ==
  IF s.tag = "Ready" THEN Uex
  ELSE IF s.tag = "Running" THEN Ok(TRunning)
  ELSE IF s.tag = "Success" THEN Ok(TSuccess)
  ELSE Ok(TFailure(IF s.args.reason = <<>> THEN "" ELSE s.args.reason[1]))

root_state(st, root) == IF root \in DOMAIN st THEN to_tick_result(st[root]) ELSE Uex

\* no direct call made
NoCall == [fn |-> "none", args |-> EmptyArgs, stk |-> <<>>, out |-> Ok(0)]

\* next_tick that stops only after the limit is exceeded
next_tick_stopped_Late(ts) == tick_limit # 0 /\ ts + 1 > tick_limit

\* next_tick: the incremented tick and whether the limit stops the run
next_tick_stopped(ts) == tick_limit # 0 /\ ts + 1 >= tick_limit

\* ------------------------------------------------------------------ tracer
\* The tracer holds an indent counter and an append-only log of events, each
\* stamped with the tick it was emitted in.  An event of the model also keeps
\* the indent and the depth of the stack at the moment of its emission.
right(ind) == ind + 1
left(ind) == ind - 1

NextTick(ts, ind, depth) ==
  [ts |-> ts, ev |-> "NextTick", id |-> 0, st |-> Ready(EmptyArgs),
   indent |-> ind, depth |-> depth]
NewState(ts, id, s, ind, depth) ==
  [ts |-> ts, ev |-> "NewState", id |-> id, st |-> s, indent |-> ind, depth |-> depth]

\* push and pop move the indent of the tracer along with the stack
\* pop that leaves the indent of the tracer as it is
pop_tracer_NoLeft(ind) == ind

push_tracer(ind) == right(ind)
pop_tracer(ind) == left(ind)

\* new_state traces NewState(id, state) at the current tick
new_state_trace(tr, ts, id, s, ind, depth) == Append(tr, NewState(ts, id, s, ind, depth))

\* next_tick traces NextTick at the incremented tick
next_tick_trace(tr, ts, ind, depth) == Append(tr, NextTick(ts + 1, ind, depth))

\* The log is append-only and its older part never changes: the model keeps
\* the log from the last event before the latest NextTick on.
LogWindow(tr) == IF tr = <<>> THEN tr ELSE <<tr[Len(tr)]>>

\* ------------------------------------------------------------------ driver
\* Cap of the tick counter.  A run over a tree of this model stays well below
\* it (TickCapUnreached), so the cap never ends a run of the modelled code.
MaxTick == 4 * MaxRunning + 4

\* budget of a leaf that may answer Running in every tick
Forever == 0 - 1

\* The end of one iteration of the loop: with the stack emptied the run is
\* over when the root finished, otherwise a new tick starts from the root.
EndOfIteration(stk, st, tm, vis, ord, ind, tr) ==
  /\ state' = st
  /\ ts_map' = tm
  /\ IF stk = <<>>
     THEN IF state_last_set(st, Root).tag = "Running"
          THEN /\ curr_ts < MaxTick
               /\ curr_ts' = curr_ts + 1
               /\ trace' = next_tick_trace(LogWindow(tr), curr_ts, ind, Len(stk))
               /\ visits' = [n \in Nodes |-> 0]
               /\ order' = <<>>
               /\ IF next_tick_stopped(curr_ts)
                  THEN pc' = "stopped" /\ stack' = stk /\ indent' = ind
                  ELSE pc' = "loop" /\ stack' = Push(stk, Root) /\ indent' = push_tracer(ind)
          ELSE /\ pc' = "done"
               /\ stack' = stk
               /\ indent' = ind
               /\ trace' = tr
               /\ curr_ts' = curr_ts
               /\ visits' = vis
               /\ order' = ord
     ELSE /\ pc' = "loop"
          /\ stack' = stk
          /\ indent' = ind
          /\ trace' = tr
          /\ curr_ts' = curr_ts
          /\ visits' = vis
          /\ order' = ord

\* apply(decision) for the node on top of the stack
Apply(id, decision) ==
  LET st == new_state_st(state, id, decision.st)
      tm == new_state_ts(ts_map, curr_ts, id)
      tr == new_state_trace(trace, curr_ts, id, decision.st, indent, Len(stack))
  IN IF decision.kind = "Stay" /\ decision.st.tag = "Running"
     THEN EndOfIteration(Push(stack, Kid(id, read_cursor(decision.st.args))), st, tm,
                         visits, order, push_tracer(indent), tr)
     ELSE EndOfIteration(Pop(stack), st, tm, visits, order, pop_tracer(indent), tr)

LeafResults(id) ==
  {TSuccess, TFailure(LeafReason[id])} \cup (IF budget[id] # 0 THEN {TRunning} ELSE {})

\* Leaf on top of the stack: run (or poll) its action, record the result, pop
LeafTick ==
  /\ pc = "loop" /\ stack # <<>>
  /\ Peek \in Leaves
  /\ LET id == Peek
         s == state_in_ts(id)
     IN IF s.tag \in Fin
        THEN /\ EndOfIteration(Pop(stack), state, ts_map, visits, order,
                               pop_tracer(indent), trace)
             /\ UNCHANGED budget
        ELSE \E r \in LeafResults(id) :
               /\ budget' = [budget EXCEPT ![id] = IF r.res = "Running" /\ @ > 0
                                                   THEN @ - 1 ELSE @]
               /\ IF s.tag = "Running" /\ r.res = "Running"
                  THEN EndOfIteration(Pop(stack), state, ts_map,
                                      [visits EXCEPT ![id] = @ + 1], Append(order, id),
                                      pop_tracer(indent), trace)
                  ELSE EndOfIteration(Pop(stack),
                                      new_state_st(state, id, StateFrom(s.args, r)),
                                      new_state_ts(ts_map, curr_ts, id),
                                      [visits EXCEPT ![id] = @ + 1], Append(order, id),
                                      pop_tracer(indent),
                                      new_state_trace(trace, curr_ts, id, StateFrom(s.args, r),
                                                      indent, Len(stack)))
  /\ UNCHANGED <<rtree, tick_limit, seen, probe>>

\* Flow node on top of the stack, not yet touched in this tick
FlowReady ==
  /\ pc = "loop" /\ stack # <<>>
  /\ Peek \in Flows
  /\ LET id == Peek
         s == state_in_ts(id)
         len == NKids(id)
         args == IF rtree.tpe[id] = "Parallel"
                 THEN run_with_par(s.args, len)
                 ELSE run_with(s.args, 0, len)
     IN /\ s.tag = "Ready"
        /\ EndOfIteration(Push(stack, Kid(id, read_cursor(args))),
                          new_state_st(state, id, Running(args)),
                          new_state_ts(ts_map, curr_ts, id),
                          [visits EXCEPT ![id] = @ + 1], Append(order, id),
                          push_tracer(indent),
                          new_state_trace(trace, curr_ts, id, Running(args),
                                          indent, Len(stack)))
        /\ seen' = [seen EXCEPT ![id] = state_last_set(state, id)]
  /\ UNCHANGED <<rtree, tick_limit, budget, probe>>

\* Flow node on top of the stack, already touched in this tick
FlowActive ==
  /\ pc = "loop" /\ stack # <<>>
  /\ Peek \in Flows
  /\ LET id == Peek
         s == state_in_ts(id)
     IN /\ s.tag # "Ready"
        /\ IF s.tag \in Fin
           THEN EndOfIteration(Pop(stack), state, ts_map, visits, order,
                               pop_tracer(indent), trace)
           ELSE LET child_id == Kid(id, read_cursor(s.args))
                    child_state == state_in_ts(child_id)
                IN IF child_state.tag = "Ready"
                   THEN EndOfIteration(Push(stack, child_id), state, ts_map, visits, order,
                                       push_tracer(indent), trace)
                   ELSE IF child_state.tag = "Running"
                        THEN Apply(id, monitor(rtree.tpe[id], s.args))
                        ELSE Apply(id, finalize(rtree.tpe[id], s.args, ToFin(child_state)))
  /\ UNCHANGED <<rtree, tick_limit, budget, seen, probe>>

\* the context after construction and the start of the run: the root is
\* pushed and NextTick is traced for the first tick
InitRun ==
  /\ state = << >>
  /\ ts_map = << >>
  /\ stack = <<Root>>
  /\ curr_ts = 1
  /\ pc = "loop"
  /\ indent = 1
  /\ trace = <<NextTick(1, 1, 1)>>
  /\ visits = [n \in DOMAIN rtree.tpe |-> 0]
  /\ order = <<>>
  /\ seen = [n \in DOMAIN rtree.tpe |-> Ready(EmptyArgs)]
  /\ probe = NoCall

Init ==
  /\ rtree \in Trees
  /\ tick_limit = 0
  /\ budget = [n \in DOMAIN rtree.tpe |-> IF rtree.tpe[n] = "Leaf" THEN MaxRunning ELSE 0]
  /\ InitRun

Next == LeafTick \/ FlowReady \/ FlowActive

Spec == Init /\ [][Next]_vars

\* the loop is a plain sequential loop: it always takes its next iteration
FairSpec == Spec /\ WF_vars(Next)

\* Runs under a tick limit: the leaves may answer Running in every tick, so
\* that only the limit ends a run whose root never finishes.
MaxLimit == 5

TreesLimit == {ShapePair(f) : f \in FlowTypes} \cup {ShapeFlat(f) : f \in FlowTypes}

InitLimit ==
  /\ rtree \in TreesLimit
  /\ tick_limit \in 0..MaxLimit
  /\ budget = [n \in DOMAIN rtree.tpe |->
                 IF rtree.tpe[n] # "Leaf" THEN 0
                 ELSE IF tick_limit = 0 THEN MaxRunning ELSE Forever]
  /\ InitRun

SpecLimit == InitLimit /\ [][Next]_vars

FairSpecLimit == SpecLimit /\ WF_vars(Next)

\* Direct calls of the functions of the context and of read_cursor, outside
\* the loop of the driver: the inputs are drawn from bounded sets, among them
\* those no run of the driver produces (a Ready root, an empty stack).
MaxCursor == 3
MaxDepth == 2

OptCursor == {<<>>} \cup {<<v>> : v \in (0 - 1)..MaxCursor}
CursorArgs ==
  {[EmptyArgs EXCEPT !.cursor = c, !.prev_cursor = p] : c \in OptCursor, p \in OptCursor}

RootStates ==
  LET a == run_with(EmptyArgs, 0, 1)
  IN {Ready(EmptyArgs), Ready(a), Running(a), Success(a), Failure(a),
      Failure(With(a, "reason", "r3"))}

InitCalls ==
  /\ rtree = ShapePair("Sequence")
  /\ \/ state = << >>
     \/ \E s \in RootStates : state = [n \in {Root} |-> s]
  /\ ts_map = [n \in DOMAIN state |-> 1]
  /\ stack = <<>>
  /\ indent = 0
  /\ trace = <<>>
  /\ curr_ts = 1
  /\ tick_limit = 0
  /\ pc = "calls"
  /\ budget = [n \in DOMAIN rtree.tpe |-> 0]
  /\ visits = [n \in DOMAIN rtree.tpe |-> 0]
  /\ order = <<>>
  /\ seen = [n \in DOMAIN rtree.tpe |-> Ready(EmptyArgs)]
  /\ probe = NoCall

ReadCursorCall ==
  /\ pc = "calls"
  /\ \E a \in CursorArgs :
       probe' = [fn |-> "read_cursor", args |-> a, stk |-> stack, out |-> Ok(read_cursor(a))]
  /\ UNCHANGED <<rtree, state, ts_map, stack, curr_ts, tick_limit, pc, budget, visits,
                 order, seen, indent, trace>>

RootStateCall ==
  /\ pc = "calls"
  /\ probe' = [fn |-> "root_state", args |-> EmptyArgs, stk |-> stack,
               out |-> root_state(state, Root)]
  /\ UNCHANGED <<rtree, state, ts_map, stack, curr_ts, tick_limit, pc, budget, visits,
                 order, seen, indent, trace>>

PushCall ==
  /\ pc = "calls"
  /\ Len(stack) < MaxDepth
  /\ \E id \in Nodes :
       /\ stack' = Push(stack, id)
       /\ indent' = push_tracer(indent)
       /\ probe' = [fn |-> "push", args |-> EmptyArgs, stk |-> stack, out |-> Ok(<<id>>)]
  /\ UNCHANGED <<rtree, state, ts_map, curr_ts, tick_limit, pc, budget, visits, order, seen,
                 trace>>

\* pop with any stack, the empty one included; what left() makes of an indent
\* of 0 is the tracer's matter: it is lowered or kept
PopCall ==
  /\ pc = "calls"
  /\ indent > 0 - MaxDepth
  /\ stack' = Pop(stack)
  /\ indent' \in {pop_tracer(indent)} \cup (IF indent <= 0 THEN {indent} ELSE {})
  /\ probe' = [fn |-> "pop", args |-> EmptyArgs, stk |-> stack, out |-> pop_result(stack)]
  /\ UNCHANGED <<rtree, state, ts_map, curr_ts, tick_limit, pc, budget, visits, order, seen,
                 trace>>

NextCalls == ReadCursorCall \/ RootStateCall \/ PushCall \/ PopCall

SpecCalls == InitCalls /\ [][NextCalls]_vars

\* ============================================================== properties
Touched(n) == is_curr_ts(ts_map, curr_ts, n)
Stored(n) == state_last_set(state, n)
OnStack(n) == \E i \in 1..Len(stack) : stack[i] = n
NodesOf(types) == {n \in Nodes : rtree.tpe[n] \in types}
Idx(n) == 0..(NKids(n) - 1)
\* position of node n among the nodes ticked in this tick (0: not ticked)
PosInOrder(n) ==
  IF \E i \in 1..Len(order) : order[i] = n
  THEN CHOOSE i \in 1..Len(order) : order[i] = n
  ELSE 0
\* the last iteration of a tick: the root is about to see its child Running
TickEnding ==
  /\ pc = "loop" /\ stack = <<Root>>
  /\ Touched(Root) /\ Stored(Root).tag = "Running"
  /\ state_in_ts(Kid(Root, 0)).tag = "Running"

\* the cap of the tick counter is never what stops the loop
TickCapUnreached == curr_ts < MaxTick

\* C1: with tick_limit = 0 and leaves that stop answering Running after
\* finitely many visits, the run eventually leaves the tick loop with an
\* empty stack and the root in Success or Failure.
C1_Termination ==
  <>(pc = "done" /\ stack = <<>> /\ Stored(Root).tag \in Fin)

C1_Witness ==
  /\ pc = "done" /\ curr_ts > 2
  /\ Stored(Root).tag \in Fin
  /\ \E p \in NodesOf({"Parallel"}) : Stored(p).tag \in Fin /\ ts_map[p] = curr_ts

\* C2: when the run is over the root is Success exactly when its single child
\* finished with Success and Failure exactly when the child finished with
\* Failure, with the child's reason, and the root's args hold cursor = 0 and
\* len = 1.
C2_RootResult ==
  pc = "done" =>
    LET r == Stored(Root)
        c == Stored(Kid(Root, 0))
    IN /\ c.tag \in Fin
       /\ r.tag = c.tag
       /\ r.tag = "Failure" => r.args.reason # <<>> /\ r.args.reason = c.args.reason
       /\ r.tag = "Success" => r.args.reason = <<>>
       /\ r.args.cursor = <<0>>
       /\ r.args.len = <<1>>

C2_Witness ==
  /\ pc = "done"
  /\ Stored(Root).tag = "Failure"
  /\ Stored(Root).args.reason = <<"r4">>

\* C3: within one tick no node is ticked more than once; a Parallel never
\* descends again into a child it already visited in the tick.
C3_NoDoubleExecution == \A n \in Nodes : visits[n] <= 1

\* a Parallel popped at the end of its pass while a child behind its cursor,
\* visited earlier in this tick, is still Running
C3_Witness ==
  \E p \in NodesOf({"Parallel"}) :
    /\ Touched(p) /\ ~OnStack(p) /\ Stored(p).tag = "Running"
    /\ \E i \in Idx(p), j \in Idx(p) :
         /\ i < j
         /\ Stored(p).args.children[i + 1] = 1
         /\ visits[Kid(p, i)] = 1
         /\ visits[Kid(p, j)] = 1
         /\ Stored(Kid(p, j)).tag \in Fin

\* C4: when a Parallel ended a tick in Running with children still Ready (0)
\* or Running (1), then by the end of the next tick in which it is entered
\* every one of those children has been ticked.
C4_ParallelResumption ==
  (TickEnding \/ pc = "done") =>
    \A p \in NodesOf({"Parallel"}) :
      (Touched(p) /\ seen[p].tag = "Running") =>
        \A i \in Idx(p) :
          seen[p].args.children[i + 1] \in {0, 1} => Touched(Kid(p, i))

\* C5: a Parallel with len = k finishes only when each of its k children has
\* status 2 or 3 (and that child's own state is Failure or Success
\* accordingly); it is Failure, with reason "parallel failure", iff some
\* status is 2 and Success iff all are 3; the finished state has no children
\* entry.  With a = Running, b = Success, c = Failure the first tick leaves
\* children = [1, 3, 2].
C5_FinishStep(p) ==
  LET a == Stored(p).args
      c == read_cursor(a)
      st(i) == IF i = c
               THEN (IF Stored(Kid(p, c)).tag = "Failure" THEN 2 ELSE 3)
               ELSE a.children[i + 1]
  IN /\ Len(a.children) = NKids(p)
     /\ a.len = <<NKids(p)>>
     /\ Touched(Kid(p, c)) /\ Stored(Kid(p, c)).tag \in Fin
     /\ \A i \in Idx(p) :
          /\ st(i) \in {2, 3}
          /\ Stored(Kid(p, i)).tag = (IF st(i) = 2 THEN "Failure" ELSE "Success")
     /\ (state'[p].tag = "Failure") <=> (\E i \in Idx(p) : st(i) = 2)
     /\ (state'[p].tag = "Success") <=> (\A i \in Idx(p) : st(i) = 3)
     /\ state'[p].tag = "Failure" => state'[p].args.reason = <<"parallel failure">>
     /\ state'[p].args.children = <<>>

C5_Example ==
  (/\ rtree = ShapeFlat("Parallel") /\ curr_ts = 1 /\ TickEnding
   /\ Stored(3).tag = "Running" /\ Stored(4).tag = "Success" /\ Stored(5).tag = "Failure")
    => Stored(2).args.children = <<1, 3, 2>>

C5_ParallelOutcome ==
  /\ []C5_Example
  /\ [][\A p \in NodesOf({"Parallel"}) :
          (p \in DOMAIN state /\ state[p].tag = "Running" /\ state'[p].tag \in Fin)
            => C5_FinishStep(p)]_vars

C5_Witness ==
  /\ rtree = ShapeFlat("Parallel") /\ curr_ts = 2 /\ pc = "done"
  /\ Stored(3).tag = "Success" /\ Stored(4).tag = "Success" /\ Stored(5).tag = "Failure"
  /\ ts_map[3] = 2 /\ ts_map[4] = 1 /\ ts_map[5] = 1
  /\ Stored(2).tag = "Failure"
  /\ Stored(2).args.reason = <<"parallel failure">>
  /\ Stored(Root).tag = "Failure"

\* the children of n ticked in this tick were ticked in increasing index order
IncreasingOrder(n) ==
  \A i \in Idx(n), j \in Idx(n) :
    (i < j /\ Touched(Kid(n, i)) /\ Touched(Kid(n, j)))
      => PosInOrder(Kid(n, i)) < PosInOrder(Kid(n, j))

\* the step in which node n, on top of the stack and Running, sees its current
\* child finished with tag t
SeesChild(n, t) ==
  /\ pc = "loop" /\ stack # <<>> /\ Peek = n
  /\ state_in_ts(n).tag = "Running"
  /\ state_in_ts(Kid(n, read_cursor(Stored(n).args))).tag = t

\* C6: a Sequence / RSequence ticks its children in increasing index order; on
\* the first child Failure it is Failure at once, without prev_cursor and with
\* the child's reason, and no later child is ticked in that tick; it is
\* Success only after the child at index n-1 succeeded, with cursor = n-1,
\* len = n and no prev_cursor; after the Success of a non-last child it stays
\* Running with cursor + 1.
C6_State(s) ==
  LET a == Stored(s).args
      n == NKids(s)
  IN /\ Touched(s) => IncreasingOrder(s)
     /\ Stored(s).tag = "Failure" =>
          /\ a.prev_cursor = <<>>
          /\ a.len = <<n>>
          /\ a.cursor # <<>> /\ a.cursor[1] \in Idx(s)
          /\ Stored(Kid(s, a.cursor[1])).tag = "Failure"
          /\ ts_map[Kid(s, a.cursor[1])] = ts_map[s]
          /\ a.reason = Stored(Kid(s, a.cursor[1])).args.reason
          /\ a.reason # <<>>
          /\ Touched(s) => \A j \in Idx(s) : j > a.cursor[1] => ~Touched(Kid(s, j))
     /\ Stored(s).tag = "Success" =>
          /\ a.cursor = <<n - 1>>
          /\ a.len = <<n>>
          /\ a.prev_cursor = <<>>
          /\ Stored(Kid(s, n - 1)).tag = "Success"
          /\ ts_map[Kid(s, n - 1)] = ts_map[s]

C6_Step(s) ==
  LET c == read_cursor(Stored(s).args)
  IN /\ SeesChild(s, "Failure") => state'[s].tag = "Failure"
     /\ (SeesChild(s, "Success") /\ c = NKids(s) - 1) => state'[s].tag = "Success"
     /\ (SeesChild(s, "Success") /\ c # NKids(s) - 1) =>
          /\ state'[s].tag = "Running"
          /\ state'[s].args.cursor = <<c + 1>>
          /\ read_cursor(state'[s].args) = c + 1
          /\ stack' = Append(stack, Kid(s, c + 1))
     /\ (s \in DOMAIN state /\ state[s].tag # "Success" /\ state'[s].tag = "Success")
          => (SeesChild(s, "Success") /\ c = NKids(s) - 1)

C6_SequenceOutcome ==
  /\ [](\A s \in NodesOf({"Sequence", "RSequence"}) : C6_State(s))
  /\ [][\A s \in NodesOf({"Sequence", "RSequence"}) : C6_Step(s)]_vars

\* S1: sequence s { a b c }, all leaves Success: ticked a, b, c in this order,
\* final cursor = 2, len = 3
C6_Witness ==
  /\ rtree = ShapeFlat("Sequence") /\ pc = "done" /\ curr_ts = 1
  /\ Stored(Root).tag = "Success"
  /\ Stored(2).tag = "Success"
  /\ Stored(2).args.cursor = <<2>> /\ Stored(2).args.len = <<3>>
  /\ order = <<1, 2, 3, 4, 5>>

\* C7: a Fallback / RFallback ticks its children in increasing index order; on
\* the first child Success it is Success at once and no child with a larger
\* index is visited in that tick; it is Failure only when the child at index
\* len-1 failed, with that child's reason and no prev_cursor; after the
\* Failure of a non-last child it stays Running with cursor + 1.
C7_State(f) ==
  LET a == Stored(f).args
      n == NKids(f)
  IN /\ Touched(f) => IncreasingOrder(f)
     /\ Stored(f).tag = "Success" =>
          /\ a.cursor # <<>> /\ a.cursor[1] \in Idx(f)
          /\ Stored(Kid(f, a.cursor[1])).tag = "Success"
          /\ ts_map[Kid(f, a.cursor[1])] = ts_map[f]
          /\ Touched(f) => \A j \in Idx(f) : j > a.cursor[1] => ~Touched(Kid(f, j))
     /\ Stored(f).tag = "Failure" =>
          /\ a.cursor = <<n - 1>>
          /\ a.prev_cursor = <<>>
          /\ Stored(Kid(f, n - 1)).tag = "Failure"
          /\ ts_map[Kid(f, n - 1)] = ts_map[f]
          /\ a.reason = Stored(Kid(f, n - 1)).args.reason
          /\ a.reason # <<>>

C7_Step(f) ==
  LET c == read_cursor(Stored(f).args)
  IN /\ SeesChild(f, "Success") => state'[f].tag = "Success"
     /\ (SeesChild(f, "Failure") /\ c = NKids(f) - 1) => state'[f].tag = "Failure"
     /\ (SeesChild(f, "Failure") /\ c # NKids(f) - 1) =>
          /\ state'[f].tag = "Running"
          /\ state'[f].args.cursor = <<c + 1>>
          /\ read_cursor(state'[f].args) = c + 1
          /\ stack' = Append(stack, Kid(f, c + 1))
     /\ (f \in DOMAIN state /\ state[f].tag # "Failure" /\ state'[f].tag = "Failure")
          => (SeesChild(f, "Failure") /\ c = NKids(f) - 1)

C7_FallbackOutcome ==
  /\ [](\A f \in NodesOf({"Fallback", "RFallback"}) : C7_State(f))
  /\ [][\A f \in NodesOf({"Fallback", "RFallback"}) : C7_Step(f)]_vars

\* S2: fallback f { a b c }, a = Failure, b = Success: root Success, c never
\* visited
C7_Witness ==
  /\ rtree = ShapeFlat("Fallback") /\ pc = "done"
  /\ Stored(3).tag = "Failure" /\ Stored(4).tag = "Success"
  /\ 5 \notin DOMAIN state
  /\ Stored(2).tag = "Success" /\ Stored(Root).tag = "Success"

\* C8: an MSequence that finished with Failure because its child k failed
\* ticks child k first the next time it is entered; children with index < k
\* are not ticked again; if all children from k on succeed it ends in Success.
C8_MSequenceResume ==
  \A m \in NodesOf({"MSequence"}) :
    (Touched(m) /\ seen[m].tag = "Failure") =>
      /\ seen[m].args.cursor # <<>>
      /\ LET k == seen[m].args.cursor[1]
         IN /\ k \in Idx(m)
            /\ \A i \in Idx(m) : i < k => ~Touched(Kid(m, i))
            /\ \A j \in Idx(m) : Touched(Kid(m, j)) => Touched(Kid(m, k))
            /\ IncreasingOrder(m)
            /\ OnStack(m) => (Touched(Kid(m, k)) \/ stack[Len(stack)] = Kid(m, k))
            /\ (/\ ~OnStack(m)
                /\ \A j \in Idx(m) :
                     j >= k => (Touched(Kid(m, j)) /\ Stored(Kid(m, j)).tag = "Success"))
                 => Stored(m).tag = "Success"

\* m_sequence m { a b } under a reactive fallback: b failed, m is entered
\* again in a later tick, starts at b, and b succeeds
C8_Witness ==
  \E m \in NodesOf({"MSequence"}) :
    /\ Touched(m) /\ seen[m].tag = "Failure"
    /\ seen[m].args.cursor = <<1>>
    /\ ~Touched(Kid(m, 0))
    /\ Touched(Kid(m, 1))
    /\ Stored(m).tag = "Success"

\* C9: every Failure state of an MSequence carries prev_cursor = the index of
\* the child that failed; every Success state of an MSequence carries no
\* prev_cursor.
C9_MemoryComposite ==
  \A m \in NodesOf({"MSequence"}) :
    /\ Stored(m).tag = "Failure" =>
         LET a == Stored(m).args
         IN /\ a.prev_cursor # <<>>
            /\ a.prev_cursor[1] \in Idx(m)
            /\ a.cursor = a.prev_cursor
            /\ Stored(Kid(m, a.prev_cursor[1])).tag = "Failure"
            /\ ts_map[Kid(m, a.prev_cursor[1])] = ts_map[m]
    /\ Stored(m).tag = "Success" => Stored(m).args.prev_cursor = <<>>

\* an MSequence that was resumed after a Running child (prev_cursor stashed)
\* and then succeeded, and one that failed at its second child
C9_Witness ==
  /\ pc = "done"
  /\ \E m \in NodesOf({"MSequence"}) :
       /\ Stored(m).tag = "Success"
       /\ seen[m].tag = "Running" /\ seen[m].args.prev_cursor = <<1>>
  /\ \E m \in NodesOf({"MSequence"}) :
       Stored(m).tag = "Failure" /\ Stored(m).args.prev_cursor = <<1>>

\* S5: sequence s { cond c, action a } in its second tick, after c = Success
\* and a = Running in the first.  A second tick means that the first ended
\* with a leaf Running; c, never having been Running, was Success in tick 1
\* (a Failure ends the run in tick 1), so a was ticked and is the leaf that
\* was Running.
S5_Tick2 ==
  /\ rtree = ShapePair("Sequence") /\ curr_ts = 2
  /\ budget[3] = MaxRunning

\* C10 (as stated): in S5, on tick 2 s is seen as Ready with empty args, c is
\* ticked again first, and with c = Failure s fails fast and a is not resumed
\* (a is ticked in tick 2 only after c succeeded again).
C10_ReactiveWipe_Original ==
  S5_Tick2 =>
    /\ (pc = "loop" /\ Peek = 2 /\ ~Touched(2)) => state_in_ts(2) = Ready(EmptyArgs)
    /\ Touched(4) => (Touched(3) /\ Stored(3).tag = "Success")
    /\ (Touched(3) /\ Touched(4)) => PosInOrder(3) < PosInOrder(4)

\* C10 (amended): in S5, on tick 2 s is seen as Ready carrying the args of its
\* last state (cursor = 1, len = 2, prev_cursor = 1); a, the child that was
\* Running, is the child ticked and c is not ticked in tick 2.
C10_ResumeRunningChild ==
  S5_Tick2 =>
    /\ (pc = "loop" /\ Peek = 2 /\ ~Touched(2)) =>
         state_in_ts(2) = Ready([EmptyArgs EXCEPT !.cursor = <<1>>, !.len = <<2>>,
                                                  !.prev_cursor = <<1>>])
    /\ ~Touched(3)
    /\ Stored(3).tag = "Success" /\ ts_map[3] = 1
    /\ budget[4] < MaxRunning
    /\ (Touched(2) /\ OnStack(2)) => (Touched(4) \/ stack = <<1, 2, 4>>)
    /\ (Touched(2) /\ ~OnStack(2)) => Touched(4)

C10_Witness ==
  /\ S5_Tick2 /\ pc = "done"
  /\ ts_map[3] = 1 /\ ts_map[4] = 2
  /\ Stored(4).tag = "Success" /\ Stored(2).tag = "Success"

\* a flow node entered in this tick whose last stored state was Running
Resumed(n) == Touched(n) /\ seen[n].tag = "Running"
\* child k of n is the first child n descends into in this tick: no other
\* child was ticked before it, and with n still on the stack and no child
\* ticked yet, child k is what lies above n
FirstChild(n, k) ==
  /\ \A i \in Idx(n) : Touched(Kid(n, i)) =>
       /\ Touched(Kid(n, k))
       /\ i # k => PosInOrder(Kid(n, k)) < PosInOrder(Kid(n, i))
  /\ (OnStack(n) /\ Stored(n).tag = "Running" /\ \A i \in Idx(n) : ~Touched(Kid(n, i))) =>
       \E d \in 1..Len(stack) : stack[d] = n /\ (d < Len(stack) => stack[d + 1] = Kid(n, k))

\* C11: a Sequence, MSequence or Fallback whose child k answers Running is
\* popped Running with prev_cursor = k, and the next tick that enters it goes
\* first into child k and ticks no child before k; an RSequence or RFallback
\* popped Running records no prev_cursor and is next entered at child 0.
C11_State ==
  /\ \A n \in NodesOf({"Sequence", "MSequence", "Fallback"}) :
       /\ (Stored(n).tag = "Running" /\ ~OnStack(n)) =>
            LET a == Stored(n).args
            IN /\ a.prev_cursor # <<>> /\ a.prev_cursor[1] \in Idx(n)
               /\ Stored(Kid(n, a.prev_cursor[1])).tag = "Running"
               /\ ts_map[Kid(n, a.prev_cursor[1])] = ts_map[n]
       /\ Resumed(n) =>
            LET k == seen[n].args.prev_cursor[1]
            IN /\ FirstChild(n, k)
               /\ \A i \in Idx(n) : i < k => ~Touched(Kid(n, i))
  /\ \A n \in NodesOf({"RSequence", "RFallback"}) :
       /\ Stored(n).args.prev_cursor = <<>>
       /\ Resumed(n) => FirstChild(n, 0)

C11_Step ==
  [][\A n \in NodesOf({"Sequence", "MSequence", "Fallback", "RSequence", "RFallback"}) :
       SeesChild(n, "Running") =>
         /\ state'[n].tag = "Running"
         /\ ~OnStack(n)'
         /\ state'[n].args.prev_cursor =
              IF rtree.tpe[n] \in {"RSequence", "RFallback"}
              THEN <<>> ELSE <<read_cursor(state[n].args)>>]_vars

C11_ResumeAfterRunning == []C11_State /\ C11_Step

\* an RSequence resumed at its first child, a Sequence, which in turn was
\* resumed at its second child without its first child being ticked again
C11_Witness ==
  /\ rtree = ShapeLeft("RSequence", "Sequence")
  /\ Resumed(2) /\ Resumed(3)
  /\ seen[3].args.prev_cursor = <<1>>
  /\ Touched(6) /\ ~Touched(5)

\* the step in which flow node n, on top of the stack, is entered
Enters(n) == pc = "loop" /\ stack # <<>> /\ Peek = n /\ state_in_ts(n).tag = "Ready"

\* C12: a Sequence, RSequence, Fallback or RFallback that finished with
\* Success or Failure is, when next entered in a later tick, Running with
\* read_cursor = 0 and starts again from its first child.
C12_State ==
  \A n \in NodesOf({"Sequence", "RSequence", "Fallback", "RFallback"}) :
    (Touched(n) /\ seen[n].tag \in Fin) => FirstChild(n, 0)

C12_Step ==
  [][\A n \in NodesOf({"Sequence", "RSequence", "Fallback", "RFallback"}) :
       (Enters(n) /\ Stored(n).tag \in Fin) =>
         /\ ts_map[n] < curr_ts
         /\ state'[n].tag = "Running"
         /\ read_cursor(state'[n].args) = 0
         /\ stack' = Append(stack, Kid(n, 0))]_vars

C12_ReactiveRestart == []C12_State /\ C12_Step

\* a Fallback that failed at its last child in an earlier tick is entered
\* again and its first child is ticked again
C12_Witness ==
  /\ rtree = ShapeLeft("RFallback", "Fallback")
  /\ Touched(3) /\ seen[3].tag = "Failure" /\ seen[3].args.cursor = <<1>>
  /\ Touched(5) /\ ts_map[6] < curr_ts

\* C13: a Parallel entered without a children entry in its args (first visit,
\* or after it finished) gets children seeded to len zeros, cursor 0 and len,
\* and the first child it descends into is child 0; entered with a children
\* entry it keeps the entry and resumes at the last recorded cursor.
C13_ParallelEntry ==
  [][\A p \in NodesOf({"Parallel"}) :
       Enters(p) =>
         LET a == Stored(p).args
         IN IF a.children = <<>>
            THEN /\ state'[p] = Running(run_with(WithChildren(a, [i \in 1..NKids(p) |-> 0]),
                                                 0, NKids(p)))
                 /\ stack' = Append(stack, Kid(p, 0))
            ELSE /\ state'[p].args.children = a.children
                 /\ stack' = Append(stack, Kid(p, read_cursor(a)))]_vars

\* C14: next_tick increments curr_ts by one, traces NextTick at the new tick
\* and stops the run exactly when tick_limit # 0 and the new curr_ts >=
\* tick_limit (never with tick_limit = 0); a run with tick_limit = 5 whose
\* root does not finish ends stopped with curr_ts = 5.
C14_Step ==
  /\ curr_ts' # curr_ts =>
       /\ curr_ts' = curr_ts + 1
       /\ trace'[Len(trace')] = NextTick(curr_ts + 1, 0, 0)
       /\ pc' = "stopped" <=> (tick_limit # 0 /\ curr_ts + 1 >= tick_limit)
  /\ (pc' = "stopped" /\ pc # "stopped") => curr_ts' # curr_ts

C14_State ==
  /\ tick_limit = 0 => pc # "stopped"
  /\ tick_limit = 5 => (curr_ts <= 5 /\ (curr_ts = 5 <=> pc = "stopped"))

C14_TickLimit ==
  /\ []C14_State
  /\ [][C14_Step]_vars
  /\ (tick_limit = 5) ~> (pc = "done" \/ (pc = "stopped" /\ curr_ts = 5))

\* a run stopped by tick_limit = 5 with its root still Running
C14_Witness ==
  /\ tick_limit = 5 /\ pc = "stopped" /\ curr_ts = 5
  /\ Stored(Root).tag = "Running"
  /\ trace[Len(trace)].ev = "NextTick" /\ trace[Len(trace)].ts = 5

\* the states recorded so far: the stored ones and those of the traced events
Recorded(n) ==
  (IF n \in DOMAIN state THEN {state[n]} ELSE {})
    \cup {trace[i].st : i \in {j \in 1..Len(trace) : trace[j].ev = "NewState" /\ trace[j].id = n}}

\* C15: every Failure state of a node, leaf or flow, has a reason entry in
\* its args.
C15_FailureReason ==
  \A n \in Nodes : \A s \in Recorded(n) : s.tag = "Failure" => s.args.reason # <<>>

\* a Parallel failed with its own reason, under a root that failed with it,
\* next to a leaf that failed with the reason of its action
C15_Witness ==
  /\ pc = "done"
  /\ \E p \in NodesOf({"Parallel"}) :
       /\ Stored(p).tag = "Failure" /\ Stored(p).args.reason = <<"parallel failure">>
       /\ \E i \in Idx(p) : /\ Stored(Kid(p, i)).tag = "Failure"
                            /\ Stored(Kid(p, i)).args.reason = <<LeafReason[Kid(p, i)]>>
  /\ Stored(Root).tag = "Failure" /\ Stored(Root).args.reason = <<"parallel failure">>

\* C16: every Running state recorded for a Parallel with k children has a
\* children array of length k with entries in {0, 1, 2, 3}, and len = k.
C16_ParallelChildren ==
  \A p \in NodesOf({"Parallel"}) : \A s \in Recorded(p) :
    s.tag = "Running" =>
      /\ Len(s.args.children) = NKids(p)
      /\ \A i \in 1..Len(s.args.children) : s.args.children[i] \in 0..3
      /\ s.args.len = <<NKids(p)>>

\* a Parallel of three children, popped Running with one child Success, one
\* Failure and one Running
C16_Witness ==
  \E p \in NodesOf({"Parallel"}) :
    /\ Stored(p).tag = "Running" /\ ~OnStack(p)
    /\ Stored(p).args.children = <<3, 2, 1>>
    /\ Stored(p).args.len = <<3>>

KidsOf(n) == {Kid(n, i) : i \in Idx(n)}
RECURSIVE Desc(_)
Desc(n) == {n} \cup UNION {Desc(c) : c \in KidsOf(n)}
RECURSIVE TreeDepth(_)
TreeDepth(n) ==
  IF n = Root THEN 1 ELSE 1 + TreeDepth(CHOOSE p \in Nodes : n \in KidsOf(p))

\* position in the log of the first NewState of node n in the current tick,
\* its entering event (0: none)
EnterPos(n) ==
  LET at == {i \in 1..Len(trace) : /\ trace[i].ev = "NewState"
                                   /\ trace[i].id = n /\ trace[i].ts = curr_ts}
  IN IF at = {} THEN 0 ELSE CHOOSE i \in at : \A j \in at : i <= j

\* C18: the NewState events of one tick come in depth-first, left-to-right
\* enter order: a flow node is entered before the children it descends into,
\* children are entered in increasing index order and the subtree of a child
\* is left before the next child is entered; one NextTick stands between the
\* events of two ticks; and at every emission the indent of the tracer equals
\* the depth of the stack, which is the depth in the tree of the node the
\* event is about.
C18_TraceOrder ==
  /\ indent = Len(stack)
  /\ \A i \in 1..Len(trace) :
       /\ trace[i].indent = trace[i].depth
       /\ trace[i].ev = "NewState" => trace[i].depth = TreeDepth(trace[i].id)
  /\ \E t \in 1..Len(trace) :
       /\ t <= 2
       /\ trace[t] = NextTick(curr_ts, IF curr_ts = 1 THEN 1 ELSE 0,
                                       IF curr_ts = 1 THEN 1 ELSE 0)
       /\ \A i \in 1..Len(trace) :
            /\ i < t => (trace[i].ev = "NewState" /\ trace[i].ts = curr_ts - 1)
            /\ i > t => (trace[i].ev = "NewState" /\ trace[i].ts = curr_ts)
  /\ \A n \in Nodes : Touched(n) <=> EnterPos(n) # 0
  /\ \A n \in Flows :
       /\ \A c \in KidsOf(n) : EnterPos(c) # 0 =>
            (EnterPos(n) # 0 /\ EnterPos(n) < EnterPos(c))
       /\ \A i \in Idx(n), j \in Idx(n) :
            (i < j /\ EnterPos(Kid(n, j)) # 0) =>
              \A d \in Desc(Kid(n, i)) : EnterPos(d) < EnterPos(Kid(n, j))

\* a second tick that went down to depth 4 in the first child of a composite
\* and then entered its second child, a leaf at depth 3
C18_Witness ==
  /\ curr_ts = 2 /\ Len(trace) >= 8
  /\ \E f \in FlowTypes, g \in FlowTypes : rtree = ShapeLeft(g, f)
  /\ \E i \in 1..Len(trace), j \in 1..Len(trace) :
       /\ i < j
       /\ trace[i].ts = 2 /\ trace[i].depth = 4 /\ trace[i].indent = 4
       /\ trace[j].ts = 2 /\ trace[j].id = 4 /\ trace[j].depth = 3

\* C19: state_in_ts(id) is the stored state when ts_map[id] = curr_ts;
\* otherwise it is Ready with exactly the args of the last stored state, and
\* Ready with empty args for a node never set.  So when it is Ready the node
\* was not touched in the current tick or its stored state is Ready; and a
\* flow node entered in this tick started from the args of its last state.
C19_StateInTs ==
  /\ \A id \in Nodes :
       LET r == state_in_ts(id)
       IN /\ IF id \in DOMAIN ts_map /\ ts_map[id] = curr_ts
             THEN r = state[id]
             ELSE IF id \in DOMAIN state
                  THEN r.tag = "Ready" /\ r.args = state[id].args
                  ELSE r = Ready(EmptyArgs)
          /\ r.tag = "Ready" =>
               (id \notin DOMAIN ts_map \/ ts_map[id] # curr_ts \/ state[id].tag = "Ready")
  /\ \A n \in Flows :
       EnterPos(n) # 0 =>
         trace[EnterPos(n)].st =
           Running(IF rtree.tpe[n] = "Parallel"
                   THEN run_with_par(seen[n].args, NKids(n))
                   ELSE run_with(seen[n].args, 0, NKids(n)))

\* in a second tick: a node touched in this tick, one left Running with
\* prev_cursor = 1 by the first tick and not yet touched, and one never set
C19_Witness ==
  /\ curr_ts = 2
  /\ \E m \in Nodes : Touched(m) /\ state_in_ts(m).tag = "Running"
  /\ \E n \in Nodes :
       /\ ~Touched(n) /\ Stored(n).tag = "Running" /\ Stored(n).args.prev_cursor = <<1>>
       /\ state_in_ts(n) = Ready(Stored(n).args)
  /\ \E k \in Nodes : k \notin DOMAIN state /\ state_in_ts(k) = Ready(EmptyArgs)

\* the events a step appends to the log, the NextTick of next_tick left out
NewEvents ==
  IF curr_ts' = curr_ts
  THEN SubSeq(trace', Len(trace) + 1, Len(trace'))
  ELSE SubSeq(trace', 1, Len(trace') - 1)

\* C20: new_state(id, s), called for the node on top of the stack, sets
\* state[id] = s and ts_map[id] = curr_ts and traces one NewState(id, s) at
\* curr_ts, emitted with the stack and the tick as they were; the entries of
\* all other nodes and tick_limit stay as they are, and an iteration without a
\* new_state changes neither map.  So state and ts_map have the same keys, no
\* timestamp is ahead of curr_ts, and the state of a node touched in this tick
\* is the one last traced for it.
C20_Step ==
  LET id == Peek
  IN /\ tick_limit' = tick_limit
     /\ curr_ts' = curr_ts => SubSeq(trace', 1, Len(trace)) = trace
     /\ Len(NewEvents) <= 1
     /\ \A n \in Nodes \ {id} :
          /\ n \in DOMAIN state' <=> n \in DOMAIN state
          /\ n \in DOMAIN ts_map' <=> n \in DOMAIN ts_map
          /\ n \in DOMAIN state => (state'[n] = state[n] /\ ts_map'[n] = ts_map[n])
     /\ IF NewEvents = <<>>
        THEN state' = state /\ ts_map' = ts_map
        ELSE /\ id \in DOMAIN state' /\ id \in DOMAIN ts_map'
             /\ ts_map'[id] = curr_ts
             /\ NewEvents[1] = NewState(curr_ts, id, state'[id], indent, Len(stack))

C20_State ==
  /\ DOMAIN state = DOMAIN ts_map
  /\ \A id \in DOMAIN ts_map : 1 <= ts_map[id] /\ ts_map[id] <= curr_ts
  /\ \A id \in Nodes :
       Touched(id) =>
         \E i \in 1..Len(trace) :
           /\ trace[i].ev = "NewState" /\ trace[i].id = id /\ trace[i].ts = curr_ts
           /\ trace[i].st = state[id]
           /\ \A j \in (i + 1)..Len(trace) : trace[j].id # id

C20_NewStateBookkeeping == []C20_State /\ [][C20_Step]_vars

\* a second tick in which a node written in the first tick was written
\* again, next to a node that still holds its state of the first tick
C20_Witness ==
  /\ curr_ts = 2
  /\ \E id \in Nodes :
       /\ Touched(id) /\ state[id].tag \in Fin
       /\ trace[Len(trace)] = NewState(2, id, state[id], TreeDepth(id), TreeDepth(id))
  /\ \E n \in DOMAIN ts_map : ts_map[n] = 1 /\ state[n].tag = "Success"

\* C21: read_cursor(args) is the larger of cursor and prev_cursor when both
\* are present, the one present when only one is, 0 when neither is, and it
\* never fails.
C21_ReadCursor ==
  probe.fn = "read_cursor" =>
    LET c == probe.args.cursor
        p == probe.args.prev_cursor
    IN /\ probe.out.ok
       /\ (c # <<>> /\ p # <<>>) =>
            /\ probe.out.val \in {c[1], p[1]}
            /\ probe.out.val >= c[1] /\ probe.out.val >= p[1]
       /\ (c # <<>> /\ p = <<>>) => probe.out.val = c[1]
       /\ (c = <<>> /\ p # <<>>) => probe.out.val = p[1]
       /\ (c = <<>> /\ p = <<>>) => probe.out.val = 0

\* read_cursor called with cursor = 3 and prev_cursor = 1
C21_Witness ==
  /\ probe.fn = "read_cursor"
  /\ probe.args.cursor = <<3>> /\ probe.args.prev_cursor = <<1>>
  /\ probe.out = Ok(3)

\* C22: root_state(root) fails with the unexpected-state error when no state
\* was recorded for the root or the recorded state is Ready; otherwise it
\* returns Running, Success or Failure(reason) as recorded; the call changes
\* nothing in the context.
C22_State ==
  probe.fn = "root_state" =>
    IF Root \notin DOMAIN state \/ state[Root].tag = "Ready"
    THEN probe.out = Uex /\ ~probe.out.ok
    ELSE /\ probe.out.ok
         /\ probe.out.val.res = state[Root].tag
         /\ probe.out.val.res \in {"Running", "Success", "Failure"}
         /\ state[Root].tag = "Failure" =>
              probe.out.val.reason =
                (IF state[Root].args.reason = <<>> THEN "" ELSE state[Root].args.reason[1])

C22_Step ==
  probe'.fn = "root_state" =>
    UNCHANGED <<state, ts_map, stack, curr_ts, tick_limit, indent, trace>>

C22_RootState == []C22_State /\ [][C22_Step]_vars

\* root_state called on a context whose root is recorded as Ready, with the
\* root pushed on the stack
C22_Witness ==
  /\ probe.fn = "root_state"
  /\ Root \in DOMAIN state /\ state[Root].tag = "Ready"
  /\ probe.out = Uex
  /\ stack = <<Root>>

\* C23: a pop called while the stack is empty returns the unexpected-state
\* error and leaves the stack and the indent of the tracer as they were.
C23_PopEmpty ==
  [][(probe'.fn = "pop" /\ stack = <<>>) =>
       /\ probe'.out = Uex
       /\ stack' = stack
       /\ indent' = indent]_vars

\* C24: every Running state recorded for a flow node has len equal to the
\* number of its children and 0 <= read_cursor(args) < len, and for a Parallel
\* read_cursor(args) is an index of its children array: the child looked up
\* at the cursor and the entry of the children array written at the cursor
\* exist.
C24_CursorInBounds ==
  \A n \in Flows : \A s \in Recorded(n) :
    s.tag = "Running" =>
      /\ NKids(n) >= 1
      /\ s.args.len = <<NKids(n)>>
      /\ 0 <= read_cursor(s.args)
      /\ read_cursor(s.args) < read_len_or_zero(s.args)
      /\ rtree.tpe[n] = "Parallel" => read_cursor(s.args) < Len(read_children_state(s.args))

\* a composite Running at its last child, in a later tick, with a
\* prev_cursor stashed in its args
C24_Witness ==
  \E n \in Flows :
    /\ curr_ts > 1 /\ Touched(n) /\ OnStack(n)
    /\ NKids(n) = 3
    /\ Stored(n).tag = "Running"
    /\ Stored(n).args.prev_cursor # <<>>
    /\ read_cursor(Stored(n).args) = 2

\* C25: under a tick limit L # 0, curr_ts never exceeds L and no node state
\* is recorded with a timestamp >= L: the nodes are visited in the ticks
\* 1..L-1 only.
C25_LimitBoundsVisits ==
  tick_limit # 0 =>
    /\ curr_ts <= tick_limit
    /\ \A id \in DOMAIN ts_map : ts_map[id] < tick_limit
    /\ \A i \in 1..Len(trace) : trace[i].ev = "NewState" => trace[i].ts < tick_limit

====
